---- MODULE Spec2Model ----
(***************************************************************************)
(* Task-tree consistency engine of the FractalTask board (src/App.tsx):    *)
(* a forest of tasks kept in one id-keyed map plus a list of root ids,     *)
(* mutated by addRootTask, addTask, toggleTask, deleteTask and updateTask. *)
(* Every setState(prev => ...) updater is one atomic action.               *)
(***************************************************************************)
EXTENDS Integers, Sequences, FiniteSets, TLC

\* ------------------------------------------------------------------ bounds
\* number of ids uuidv4() hands out in one behaviour
MaxIds == 4
\* number of updateTask calls in one behaviour
MaxEdits == 1
\* number of suggested titles handed to onAddTask in one behaviour
MaxSuggested == 1
\* number of ids uuidv4() hands out in one behaviour of SpecEngine and of
\* SpecStore
MaxEngineIds == 2
\* number of titles in one response of the suggestion service
MaxBatch == 2
\* number of ids uuidv4() hands out in one behaviour of SpecSuggest
MaxSuggestIds == 4
\* number of ids uuidv4() hands out in one behaviour of SpecGenerate
MaxGenerateIds == 3
\* number of handleGenerateSubtasks calls of one task id at their await
MaxCalls == 2
\* number of ids uuidv4() hands out in one behaviour of SpecForms
MaxFormIds == 3
\* number of ids uuidv4() hands out in one behaviour of SpecConfirm
MaxConfirmIds == 3

\* ------------------------------------------------------- program constants
\* parentId: null (a root); falsy in `while (currId)` / `if (x.parentId)`
NoId == 0

\* titles and descriptions are sequences of tokens; " " is white space
Space == " "
DefaultRootTitle == <<"My First Project">>
NewRootTitle == <<"New Project">>
EmptyText == <<>>

VARIABLES
  tasks,        \* state.tasks: id -> Task, defined on the existing keys
  rootTaskIds,  \* state.rootTaskIds
  nextId,       \* the next id uuidv4() returns
  now,          \* Date.now(); a tick passes between two creations
  edits,        \* updateTask calls so far
  suggested,    \* suggested titles handed to onAddTask so far
  crashed,      \* an updater has thrown: the uncaught error unmounts the app
  last,         \* the last operation, its arguments and the state it ran on
  storage,      \* localStorage item 'fractal-task-state'
  pendingSave,  \* the persistence effect is scheduled and has not run yet
  pendingDeleteId, \* App's state taskToDelete (the modal's id), NoId for null
  navStack,     \* per column (keyed by its rootId) the navigation stack
  requests,     \* the generateSubtasks calls awaiting their response
  generatingIds,        \* a column's state generatingIds
  handlerGeneratingIds, \* generatingIds as the column's last render, and so
                        \* its handlers and buttons, have it
  calls         \* per task id, the handleGenerateSubtasks calls at their await

\* the state around the engine: persistence, modal, columns, suggestions
column == <<generatingIds, handlerGeneratingIds, calls>>

shell == <<storage, pendingSave, pendingDeleteId, navStack, requests, column>>

vars == <<tasks, rootTaskIds, nextId, now, edits, suggested, crashed, last,
          storage, pendingSave, pendingDeleteId, navStack, requests,
          generatingIds, handlerGeneratingIds, calls>>

\* ------------------------------------------------------------ text helpers
RECURSIVE TrimStart(_)
TrimStart(s) ==
  IF s # <<>> /\ Head(s) = Space THEN TrimStart(Tail(s)) ELSE s

RECURSIVE TrimEnd(_)
TrimEnd(s) ==
  IF s # <<>> /\ s[Len(s)] = Space THEN TrimEnd(SubSeq(s, 1, Len(s) - 1)) ELSE s

\* String.prototype.trim
Trim(s) == TrimEnd(TrimStart(s))

\* what a user can type into a title or description box
RawTexts == {<<>>, <<Space>>, <<Space, "a", Space>>}

\* ---------------------------------------------------------- array helpers
\* faulty variant: the kept elements come out in reverse order
RECURSIVE FilterOutReversed(_, _)
FilterOutReversed(arr, id) ==
  IF arr = <<>> THEN <<>>
  ELSE IF Head(arr) = id THEN FilterOutReversed(Tail(arr), id)
       ELSE FilterOutReversed(Tail(arr), id) \o <<Head(arr)>>

\* arr.filter(x => x !== id)
RECURSIVE FilterOut(_, _)
FilterOut(arr, id) ==
  IF arr = <<>> THEN <<>>
  ELSE IF Head(arr) = id THEN FilterOut(Tail(arr), id)
       ELSE <<Head(arr)>> \o FilterOut(Tail(arr), id)

\* arr.every(cid => ts[cid].completed)
EveryCompleted(ts, arr) == \A i \in 1..Len(arr) : ts[arr[i]].completed

SeqSet(arr) == {arr[i] : i \in 1..Len(arr)}

\* ------------------------------------------------------------------ engine
\* the Task literal built by addRootTask / addTask / loadState
NewTask(id, title, parentId, t) ==
  [id |-> id, title |-> title, description |-> EmptyText, completed |-> FALSE,
   children |-> <<>>, parentId |-> parentId, createdAt |-> t]

\* { ...map, [id]: task }
Put(ts, id, task) ==
  [k \in DOMAIN ts \cup {id} |-> IF k = id THEN task ELSE ts[k]]

\* loadState with nothing saved: the default initial state
DefaultState(id, t) ==
  [tasks |-> Put(<<>>, id, NewTask(id, DefaultRootTitle, NoId, t)),
   rootTaskIds |-> <<id>>]

\* faulty variant: the new root is put in front
addRootTaskFirst(prev, id, t) ==
  [tasks |-> Put(prev.tasks, id, NewTask(id, NewRootTitle, NoId, t)),
   rootTaskIds |-> <<id>> \o prev.rootTaskIds]

\* addRootTask's updater
addRootTask(prev, id, t) ==
  [tasks |-> Put(prev.tasks, id, NewTask(id, NewRootTitle, NoId, t)),
   rootTaskIds |-> Append(prev.rootTaskIds, id)]

\* faulty variant: the walk up is left out, only the parent is un-completed
addTaskUpNone(ts, currId) == ts

\* addTask: "Propagate incomplete status up"
RECURSIVE addTaskUp(_, _)
addTaskUp(ts, currId) ==
  IF currId = NoId THEN ts
  ELSE LET currTask == ts[currId] IN
       IF ~currTask.completed THEN ts
       ELSE addTaskUp([ts EXCEPT ![currId].completed = FALSE], currTask.parentId)

\* faulty variant: a missing parent does not stop the create, the task is
\* added without one
addTaskOrphan(prev, parentId, title, newId, t) ==
  IF parentId \notin DOMAIN prev.tasks
  THEN [prev EXCEPT !.tasks =
          Put(prev.tasks, newId, NewTask(newId, title, parentId, t))]
  ELSE LET parent == prev.tasks[parentId]
           updatedTasks ==
             Put(Put(prev.tasks, newId, NewTask(newId, title, parentId, t)),
                 parentId,
                 [parent EXCEPT !.children = Append(parent.children, newId),
                                !.completed = FALSE])
       IN [prev EXCEPT !.tasks = addTaskUp(updatedTasks, parent.parentId)]

\* faulty variant: the new task does not point back at its parent
addTaskNoBackRef(prev, parentId, title, newId, t) ==
  IF parentId \notin DOMAIN prev.tasks THEN prev
  ELSE LET parent == prev.tasks[parentId]
           updatedTasks ==
             Put(Put(prev.tasks, newId, NewTask(newId, title, NoId, t)),
                 parentId,
                 [parent EXCEPT !.children = Append(parent.children, newId),
                                !.completed = FALSE])
       IN [prev EXCEPT !.tasks = addTaskUp(updatedTasks, parent.parentId)]

\* faulty variant: the new id is put in front of the parent's children
addTaskPrepend(prev, parentId, title, newId, t) ==
  IF parentId \notin DOMAIN prev.tasks THEN prev
  ELSE LET parent == prev.tasks[parentId]
           updatedTasks ==
             Put(Put(prev.tasks, newId, NewTask(newId, title, parentId, t)),
                 parentId,
                 [parent EXCEPT !.children = <<newId>> \o parent.children,
                                !.completed = FALSE])
       IN [prev EXCEPT !.tasks = addTaskUp(updatedTasks, parent.parentId)]

\* addTask's updater
addTask(prev, parentId, title, newId, t) ==
  IF parentId \notin DOMAIN prev.tasks THEN prev
  ELSE LET parent == prev.tasks[parentId]
           updatedTasks ==
             Put(Put(prev.tasks, newId, NewTask(newId, title, parentId, t)),
                 parentId,
                 [parent EXCEPT !.children = Append(parent.children, newId),
                                !.completed = FALSE])
       IN [prev EXCEPT !.tasks = addTaskUp(updatedTasks, parent.parentId)]

\* toggleTask: updateDescendants, and the forEach over t.children
RECURSIVE updateDescendants(_, _, _)
RECURSIVE updateChildren(_, _, _, _)
\* faulty variant: only the task and its direct children are forced
updateDescendantsShallow(ts, id, status) ==
  IF id \notin DOMAIN ts THEN ts
  ELSE [k \in DOMAIN ts |->
          IF k = id \/ k \in SeqSet(ts[id].children)
          THEN [ts[k] EXCEPT !.completed = status]
          ELSE ts[k]]

updateDescendants(ts, id, status) ==
  IF id \notin DOMAIN ts THEN ts
  ELSE updateChildren([ts EXCEPT ![id].completed = status],
                      ts[id].children, 1, status)

updateChildren(ts, children, i, status) ==
  IF i > Len(children) THEN ts
  ELSE updateChildren(updateDescendants(ts, children[i], status),
                      children, i + 1, status)

\* faulty variant: the walk up stops after the parent
toggleUpOneLevel(ts, currId, newCompleted) ==
  IF currId = NoId THEN ts
  ELSE IF currId \notin DOMAIN ts THEN ts
  ELSE LET parent == ts[currId] IN
    IF newCompleted
    THEN [ts EXCEPT ![currId].completed = EveryCompleted(ts, parent.children)]
    ELSE [ts EXCEPT ![currId].completed = FALSE]

\* toggleTask: "Propagate changes UP"
RECURSIVE toggleUp(_, _, _)
toggleUp(ts, currId, newCompleted) ==
  IF currId = NoId THEN ts
  ELSE IF currId \notin DOMAIN ts THEN ts
  ELSE LET parent == ts[currId] IN
    IF newCompleted
    THEN IF EveryCompleted(ts, parent.children)
         THEN toggleUp([ts EXCEPT ![currId].completed = TRUE],
                       parent.parentId, newCompleted)
         ELSE IF parent.completed
              THEN toggleUp([ts EXCEPT ![currId].completed = FALSE],
                            parent.parentId, newCompleted)
              ELSE ts
    ELSE IF ~parent.completed THEN ts
         ELSE toggleUp([ts EXCEPT ![currId].completed = FALSE],
                       parent.parentId, newCompleted)

\* faulty variant: the walk never stops early, every ancestor up to the root
\* is visited and rewritten
RECURSIVE toggleUpVisitedAll(_, _, _)
toggleUpVisitedAll(ts, currId, newCompleted) ==
  IF currId = NoId THEN <<>>
  ELSE IF currId \notin DOMAIN ts THEN <<>>
  ELSE <<[id |-> currId, written |-> TRUE]>>
       \o toggleUpVisitedAll(ts, ts[currId].parentId, newCompleted)

\* toggleTask: the ancestors the loop "Propagate changes UP" visits, in
\* order, and whether it assigns tasksCopy[currId] there
RECURSIVE toggleUpVisited(_, _, _)
toggleUpVisited(ts, currId, newCompleted) ==
  IF currId = NoId THEN <<>>
  ELSE IF currId \notin DOMAIN ts THEN <<>>
  ELSE LET parent == ts[currId] IN
    IF newCompleted
    THEN IF EveryCompleted(ts, parent.children)
         THEN <<[id |-> currId, written |-> TRUE]>>
              \o toggleUpVisited([ts EXCEPT ![currId].completed = TRUE],
                                 parent.parentId, newCompleted)
         ELSE IF parent.completed
              THEN <<[id |-> currId, written |-> TRUE]>>
                   \o toggleUpVisited([ts EXCEPT ![currId].completed = FALSE],
                                      parent.parentId, newCompleted)
              ELSE <<[id |-> currId, written |-> FALSE]>>
    ELSE IF ~parent.completed THEN <<[id |-> currId, written |-> FALSE]>>
         ELSE <<[id |-> currId, written |-> TRUE]>>
              \o toggleUpVisited([ts EXCEPT ![currId].completed = FALSE],
                                 parent.parentId, newCompleted)

\* faulty variant: un-checking a task does not walk up
toggleTaskPromoteOnly(prev, taskId) ==
  IF taskId \notin DOMAIN prev.tasks THEN prev
  ELSE LET task == prev.tasks[taskId]
           newCompleted == ~task.completed
           forced == updateDescendants(prev.tasks, taskId, newCompleted)
       IN [prev EXCEPT !.tasks =
             IF newCompleted THEN toggleUp(forced, task.parentId, newCompleted)
             ELSE forced]

\* faulty variant: the new value is forced from the parent down, siblings
\* included
toggleTaskFromParent(prev, taskId) ==
  IF taskId \notin DOMAIN prev.tasks THEN prev
  ELSE LET task == prev.tasks[taskId]
           newCompleted == ~task.completed
           top == IF task.parentId = NoId THEN taskId ELSE task.parentId
       IN [prev EXCEPT !.tasks =
             toggleUp(updateDescendants(prev.tasks, top, newCompleted),
                      task.parentId, newCompleted)]

\* toggleTask's updater
toggleTask(prev, taskId) ==
  IF taskId \notin DOMAIN prev.tasks THEN prev
  ELSE LET task == prev.tasks[taskId]
           newCompleted == ~task.completed
       IN [prev EXCEPT !.tasks =
             toggleUp(updateDescendants(prev.tasks, taskId, newCompleted),
                      task.parentId, newCompleted)]

\* deleteTask: collect, and the forEach over t.children
RECURSIVE collect(_, _, _)
RECURSIVE collectChildren(_, _, _, _)
\* faulty variant: only the task and its direct children are collected
collectShallow(ts, acc, id) ==
  IF id \in DOMAIN ts THEN acc \cup {id} \cup SeqSet(ts[id].children)
  ELSE acc \cup {id}

collect(ts, acc, id) ==
  IF id \in DOMAIN ts
  THEN collectChildren(ts, acc \cup {id}, ts[id].children, 1)
  ELSE acc \cup {id}

collectChildren(ts, acc, children, i) ==
  IF i > Len(children) THEN acc
  ELSE collectChildren(ts, collect(ts, acc, children[i]), children, i + 1)

\* faulty variant: only the parent is promoted
deleteUpOnce(ts, currId) ==
  IF currId = NoId THEN ts
  ELSE IF EveryCompleted(ts, ts[currId].children)
       THEN [ts EXCEPT ![currId].completed = TRUE]
       ELSE ts

\* deleteTask: "Propagate completion up"
RECURSIVE deleteUp(_, _)
deleteUp(ts, currId) ==
  IF currId = NoId THEN ts
  ELSE LET p == ts[currId] IN
       IF EveryCompleted(ts, p.children)
       THEN deleteUp([ts EXCEPT ![currId].completed = TRUE], p.parentId)
       ELSE ts

\* ------------------------------------------- the visits of the engine's loops
\* toggleTask: the ids whose task updateDescendants rewrites, call by call
RECURSIVE updateDescendantsVisited(_, _)
RECURSIVE updateChildrenVisited(_, _, _)
\* faulty variant: the children are gone over once more after the recursion
updateDescendantsVisitedAgain(ts, id) ==
  IF id \notin DOMAIN ts THEN <<>>
  ELSE <<id>> \o updateChildrenVisited(ts, ts[id].children, 1)
            \o ts[id].children

updateDescendantsVisited(ts, id) ==
  IF id \notin DOMAIN ts THEN <<>>
  ELSE <<id>> \o updateChildrenVisited(ts, ts[id].children, 1)

updateChildrenVisited(ts, children, i) ==
  IF i > Len(children) THEN <<>>
  ELSE updateDescendantsVisited(ts, children[i])
       \o updateChildrenVisited(ts, children, i + 1)

\* deleteTask: the ids collect adds to idsToDelete, call by call
RECURSIVE collectVisited(_, _)
RECURSIVE collectChildrenVisited(_, _, _)
collectVisited(ts, id) ==
  <<id>> \o IF id \in DOMAIN ts
            THEN collectChildrenVisited(ts, ts[id].children, 1)
            ELSE <<>>

collectChildrenVisited(ts, children, i) ==
  IF i > Len(children) THEN <<>>
  ELSE collectVisited(ts, children[i])
       \o collectChildrenVisited(ts, children, i + 1)

\* addTask: the ids the loop "Propagate incomplete status up" reads
RECURSIVE addTaskUpVisited(_, _)
addTaskUpVisited(ts, currId) ==
  IF currId = NoId THEN <<>>
  ELSE LET currTask == ts[currId] IN
       IF ~currTask.completed THEN <<currId>>
       ELSE <<currId>>
            \o addTaskUpVisited([ts EXCEPT ![currId].completed = FALSE],
                                currTask.parentId)

\* the walk up of addTask(parentId, ...) on ts
addTaskWalk(ts, parentId) ==
  addTaskUpVisited([ts EXCEPT ![parentId].completed = FALSE],
                   ts[parentId].parentId)

\* the walk up of toggleTask(taskId) on ts
toggleTaskWalk(ts, taskId) ==
  LET newCompleted == ~ts[taskId].completed
      v == toggleUpVisited(updateDescendants(ts, taskId, newCompleted),
                           ts[taskId].parentId, newCompleted)
  IN [i \in 1..Len(v) |-> v[i].id]

\* deleteTask: the ids the loop "Propagate completion up" reads
RECURSIVE deleteUpVisited(_, _)
deleteUpVisited(ts, currId) ==
  IF currId = NoId THEN <<>>
  ELSE LET p == ts[currId] IN
       IF EveryCompleted(ts, p.children)
       THEN <<currId>>
            \o deleteUpVisited([ts EXCEPT ![currId].completed = TRUE],
                               p.parentId)
       ELSE <<currId>>

\* the walk up of deleteTask(taskId) on ts
deleteTaskWalk(ts, taskId) ==
  LET taskToDelete == ts[taskId] IN
  IF taskToDelete.parentId = NoId THEN <<>>
  ELSE IF taskToDelete.parentId \notin DOMAIN ts THEN <<>>
  ELSE LET parent == ts[taskToDelete.parentId]
           ts1 == [ts EXCEPT ![parent.id].children =
                                FilterOut(parent.children, taskId)]
           newChildren == ts1[parent.id].children
       IN IF Len(newChildren) > 0 /\ EveryCompleted(ts1, newChildren)
          THEN deleteUpVisited(ts1, parent.id)
          ELSE <<>>

\* ------------------------------------------------------ deleteTask, detach
\* faulty variant: the id stays in the parent's children
deleteDetachKeepsChild(ts, taskId) == ts

\* faulty variant: the parent is not re-evaluated
deleteDetachNoPromote(ts, taskId) ==
  LET taskToDelete == ts[taskId] IN
  IF taskToDelete.parentId = NoId THEN ts
  ELSE IF taskToDelete.parentId \notin DOMAIN ts THEN ts
  ELSE LET parent == ts[taskToDelete.parentId]
       IN [ts EXCEPT ![parent.id].children = FilterOut(parent.children, taskId)]

\* faulty variant: the parent's value is recomputed from the remaining children, an
\* emptied list counting as incomplete
deleteDetachRecompute(ts, taskId) ==
  LET taskToDelete == ts[taskId] IN
  IF taskToDelete.parentId = NoId THEN ts
  ELSE IF taskToDelete.parentId \notin DOMAIN ts THEN ts
  ELSE LET parent == ts[taskToDelete.parentId]
           newChildren == FilterOut(parent.children, taskId)
           ts1 == [ts EXCEPT ![parent.id].children = newChildren]
       IN IF Len(newChildren) > 0 /\ EveryCompleted(ts1, newChildren)
          THEN deleteUp(ts1, parent.id)
          ELSE [ts1 EXCEPT ![parent.id].completed = FALSE]

\* deleteTask: "Remove from parent's children list" and re-evaluate the parent
deleteDetach(ts, taskId) ==
  LET taskToDelete == ts[taskId] IN
  IF taskToDelete.parentId = NoId THEN ts
  ELSE IF taskToDelete.parentId \notin DOMAIN ts THEN ts
  ELSE LET parent == ts[taskToDelete.parentId]
           ts1 == [ts EXCEPT ![parent.id].children =
                                FilterOut(parent.children, taskId)]
           newChildren == ts1[parent.id].children
       IN IF Len(newChildren) > 0 /\ EveryCompleted(ts1, newChildren)
          THEN deleteUp(ts1, parent.id)
          ELSE ts1

\* faulty variant: rootTaskIds is not filtered
deleteTaskKeepsRoot(prev, taskId) ==
  LET idsToDelete == collect(prev.tasks, {}, taskId)
      ts2 == deleteDetach(prev.tasks, taskId)
  IN [tasks |-> [k \in DOMAIN ts2 \ idsToDelete |-> ts2[k]],
      rootTaskIds |-> prev.rootTaskIds]

\* deleteTask's updater, for a taskId that is a key of prev.tasks
deleteTask(prev, taskId) ==
  LET idsToDelete == collect(prev.tasks, {}, taskId)
      ts2 == deleteDetach(prev.tasks, taskId)
  IN [tasks |-> [k \in DOMAIN ts2 \ idsToDelete |-> ts2[k]],
      rootTaskIds |-> FilterOut(prev.rootTaskIds, taskId)]

\* { ...task, ...updates }
Merge(task, updates) ==
  [f \in DOMAIN task \cup DOMAIN updates |->
     IF f \in DOMAIN updates THEN updates[f] ELSE task[f]]

\* faulty variant: an edit re-opens the task
updateTaskReopen(prev, id, updates) ==
  [prev EXCEPT !.tasks =
     Put(prev.tasks, id,
         [Merge(prev.tasks[id], updates) EXCEPT !.completed = FALSE])]

\* ...prev.tasks[id]: the fields of the task, none when id is no key
Spread(ts, id) == IF id \in DOMAIN ts THEN ts[id] ELSE <<>>

\* updateTask's updater
updateTask(prev, id, updates) ==
  [prev EXCEPT !.tasks = Put(prev.tasks, id, Merge(Spread(prev.tasks, id), updates))]

\* a key of ts that holds a whole Task; updateTask on a missing id leaves a
\* key that holds the updates only
IsTask(ts, id) == id \in DOMAIN ts /\ "children" \in DOMAIN ts[id]

\* addTask throws at [...parent.children, newId] when parent has no children
addTaskThrows(prev, parentId) ==
  parentId \in DOMAIN prev.tasks /\ ~IsTask(prev.tasks, parentId)

\* toggleTask throws at t.children.forEach when the task has no children
toggleTaskThrows(prev, taskId) ==
  taskId \in DOMAIN prev.tasks /\ ~IsTask(prev.tasks, taskId)

\* deleteTask (src/App.tsx) throws at taskToDelete.parentId when taskId is no
\* key, and at t.children.forEach when the task has no children
deleteTaskThrows(prev, taskId) == ~IsTask(prev.tasks, taskId)

\* executeDeleteTask (the confirm-delete variant) reads taskToDelete?.parentId
\* and throws only at t.children.forEach
executeDeleteTaskThrows(prev, taskId) ==
  taskId \in DOMAIN prev.tasks /\ ~IsTask(prev.tasks, taskId)

\* executeDeleteTask's updater
executeDeleteTask(prev, taskId) ==
  LET idsToDelete == collect(prev.tasks, {}, taskId)
      ts2 == IF taskId \in DOMAIN prev.tasks
             THEN deleteDetach(prev.tasks, taskId)
             ELSE prev.tasks
  IN [tasks |-> [k \in DOMAIN ts2 \ idsToDelete |-> ts2[k]],
      rootTaskIds |-> FilterOut(prev.rootTaskIds, taskId)]

\* the titles generateSubtasks returns: suggestions.map(s => String(s))
generateSubtasksTitles == RawTexts

\* the updates TaskItem.handleSave, saveHeaderEdit and handleTaskTitleUpdate
\* pass to onUpdate: a trimmed non-empty title, with or without the trimmed
\* description
handleSaveUpdates ==
  {[title |-> Trim(rt), description |-> Trim(rd)] :
     <<rt, rd>> \in {p \in RawTexts \X RawTexts : Trim(p[1]) # <<>>}}
  \cup {[title |-> Trim(rt)] : rt \in {r \in RawTexts : Trim(r) # <<>>}}

\* the updates a caller of onUpdateTask can pass
onUpdateTaskUpdates ==
  handleSaveUpdates \cup {[title |-> t] : t \in RawTexts}

\* the titles handleAddTaskSubmit passes to onAddTask
handleAddTaskSubmitTitles == {Trim(r) : r \in {x \in RawTexts : Trim(x) # <<>>}}

\* a forest saved by an earlier session: 1{2{3,4},5}, built by the engine
SavedForest ==
  LET s1 == DefaultState(1, 0)
      s2 == addTask(s1, 1, <<"a">>, 2, 1)
      s3 == addTask(s2, 2, <<"a">>, 3, 2)
      s4 == addTask(s3, 2, <<"a">>, 4, 3)
  IN addTask(s4, 1, <<"a">>, 5, 4)

\* ------------------------------------------------------------- persistence
\* localStorage.getItem: null when nothing is stored, else a string; a string
\* is the empty string, text that is no JSON, or the JSON text of a value
NoItem == [kind |-> "null"]
EmptyString == [kind |-> "empty"]
Garbage == [kind |-> "garbage"]

\* faulty variant: the tasks are left out of the text
JSONStringifyRootsOnly(v) ==
  [kind |-> "json", value |-> [v EXCEPT !.tasks = <<>>]]

\* JSON.stringify(state)
JSONStringify(v) == [kind |-> "json", value |-> v]

\* JSON.parse(saved) throws a SyntaxError on text that is no JSON
JSONParseThrows(saved) == saved.kind # "json"
JSONParse(saved) == saved.value

\* `if (saved)`: null and the empty string are falsy
Truthy(saved) == saved.kind \notin {"null", "empty"}

\* loadState, id and t being what uuidv4() and Date.now() would return
loadState(saved, id, t) ==
  IF Truthy(saved) /\ ~JSONParseThrows(saved) THEN JSONParse(saved)
  ELSE DefaultState(id, t)

\* loadState calls uuidv4() only for the default state
loadStateSeeds(saved) == ~(Truthy(saved) /\ ~JSONParseThrows(saved))

\* ------------------------------------------------------- suggestion service
\* the elements of a JSON array: strings, or something else (null)
StringElement(text) == [type |-> "string", text |-> text]
NullElement == [type |-> "null"]

\* String(s)
StringOf(s) == IF s.type = "string" THEN s.text ELSE <<"null">>

\* a parsed JSON value as far as Array.isArray tells: an array, or not
ArrayValue(items) == [isArray |-> TRUE, items |-> items]
ObjectValue == [isArray |-> FALSE]

TitlePool == <<"a", "b", "c", "d">>
\* the array ["a", "b", ...] of k titles
TitleArray(k) ==
  [i \in 1..k |-> StringElement(<<TitlePool[((i - 1) % 4) + 1]>>)]

\* what ai.models.generateContent does: it rejects, or it resolves with a
\* response whose text is empty, no JSON, JSON of a non-array, or a JSON
\* array
Responses ==
  {[kind |-> "rejected"],
   [kind |-> "resolved", text |-> EmptyString],
   [kind |-> "resolved", text |-> Garbage],
   [kind |-> "resolved", text |-> JSONStringify(ObjectValue)],
   [kind |-> "resolved", text |-> JSONStringify(ArrayValue(<<NullElement>>))]}
  \cup {[kind |-> "resolved", text |-> JSONStringify(ArrayValue(TitleArray(k)))] :
          k \in 0..MaxBatch}

\* faulty variant: a failure yields a fallback title
generateSubtasksFallback(response) ==
  IF response.kind = "rejected" THEN << <<"a">> >>
  ELSE LET text == response.text IN
    IF ~Truthy(text) THEN << <<"a">> >>
    ELSE IF JSONParseThrows(text) THEN << <<"a">> >>
    ELSE LET suggestions == JSONParse(text) IN
      IF suggestions.isArray
      THEN [i \in 1..Len(suggestions.items) |-> StringOf(suggestions.items[i])]
      ELSE << <<"a">> >>

\* generateSubtasks, given what the service does with the request
generateSubtasks(response) ==
  IF response.kind = "rejected" THEN <<>>
  ELSE LET text == response.text IN
    IF ~Truthy(text) THEN <<>>
    ELSE IF JSONParseThrows(text) THEN <<>>
    ELSE LET suggestions == JSONParse(text) IN
      IF suggestions.isArray
      THEN [i \in 1..Len(suggestions.items) |-> StringOf(suggestions.items[i])]
      ELSE <<>>

\* faulty variant: every onAddTask works on the state the first one saw, so
\* only the last title is kept
RECURSIVE forEachOnAddTaskStale(_, _, _, _, _)
forEachOnAddTaskStale(prev, taskId, titles, id, t) ==
  IF titles = <<>> THEN prev
  ELSE addTask(prev, taskId, titles[Len(titles)], id, t)

\* suggestions.forEach(title => onAddTask(taskId, title)): the queued
\* updaters run in order, each on the state the one before returned
RECURSIVE forEachOnAddTask(_, _, _, _, _)
forEachOnAddTask(prev, taskId, titles, id, t) ==
  IF titles = <<>> THEN prev
  ELSE forEachOnAddTask(addTask(prev, taskId, Head(titles), id, t),
                        taskId, Tail(titles), id + 1, t + 1)

\* ------------------------------------------------------------- the machine
state == [tasks |-> tasks, rootTaskIds |-> rootTaskIds]

\* last.twice: the operation repeats a toggleTask of the same id, and then
\* last.before is the state the first of the two ran on
Record(op, id) ==
  LET twice == op = "toggleTask" /\ last.op = "toggleTask" /\ last.id = id IN
  last' = [op |-> op, id |-> id, tasks |-> tasks, rootTaskIds |-> rootTaskIds,
           twice |-> twice, before |-> IF twice THEN last.tasks ELSE tasks]

Commit(next) ==
  /\ tasks' = next.tasks
  /\ rootTaskIds' = next.rootTaskIds

\* what loadState returns: the default state of a first run (ids and times
\* start at 1 and 0), or the state an earlier session saved
LoadedStates ==
  {[st |-> DefaultState(1, 0), nextId |-> 2, now |-> 1],
   [st |-> SavedForest, nextId |-> 6, now |-> 5]}

\* no suggestion asked for
ColumnAtRest ==
  /\ generatingIds = {}
  /\ handlerGeneratingIds = {}
  /\ calls = <<>>

\* the engine on its own: nothing stored, no effect scheduled, no modal, no
\* column, no request
ShellAtRest ==
  /\ storage = NoItem
  /\ pendingSave = FALSE
  /\ pendingDeleteId = NoId
  /\ navStack = <<>>
  /\ requests = {}
  /\ ColumnAtRest

Init ==
  \E l \in LoadedStates :
    /\ tasks = l.st.tasks
    /\ rootTaskIds = l.st.rootTaskIds
    /\ nextId = l.nextId
    /\ now = l.now
    /\ edits = 0
    /\ suggested = 0
    /\ crashed = FALSE
    /\ last = [op |-> "loadState", id |-> NoId, tasks |-> tasks,
               rootTaskIds |-> rootTaskIds, twice |-> FALSE, before |-> tasks]
    /\ ShellAtRest

AddRootTask ==
  /\ ~crashed
  /\ nextId <= MaxIds
  /\ Commit(addRootTask(state, nextId, now))
  /\ nextId' = nextId + 1
  /\ now' = now + 1
  /\ Record("addRootTask", nextId)
  /\ UNCHANGED <<edits, suggested, crashed>>

\* the tasks a column can show: the keys that hold a whole Task
Shown == {k \in DOMAIN tasks : IsTask(tasks, k)}

AddTask ==
  \E parentId \in Shown, title \in handleAddTaskSubmitTitles :
    /\ ~crashed
    /\ nextId <= MaxIds
    /\ Commit(addTask(state, parentId, title, nextId, now))
    /\ nextId' = nextId + 1
    /\ now' = now + 1
    /\ Record("addTask", parentId)
    /\ UNCHANGED <<edits, suggested, crashed>>

ToggleTask ==
  \E taskId \in DOMAIN tasks :
    /\ Commit(toggleTask(state, taskId))
    /\ Record("toggleTask", taskId)
    /\ UNCHANGED <<nextId, now, edits, suggested, crashed>>

DeleteTask ==
  \E taskId \in DOMAIN tasks :
    /\ Commit(deleteTask(state, taskId))
    /\ Record("deleteTask", taskId)
    /\ UNCHANGED <<nextId, now, edits, suggested, crashed>>

UpdateTask ==
  \E id \in DOMAIN tasks, updates \in handleSaveUpdates :
    /\ edits < MaxEdits
    /\ Commit(updateTask(state, id, updates))
    /\ edits' = edits + 1
    /\ Record("updateTask", id)
    /\ UNCHANGED <<nextId, now, suggested, crashed>>

Next ==
  /\ \/ AddRootTask
     \/ AddTask
     \/ ToggleTask
     \/ DeleteTask
     \/ UpdateTask
  /\ UNCHANGED shell

Spec == Init /\ [][Next]_vars

\* ------------------------------------------- the engine's operation surface
\* The callbacks App hands to the columns, called with an id the caller
\* captured earlier (the task may be gone by now) and with text no form has
\* checked.

\* the ids uuidv4() has handed out so far
MintedIds == 1..(nextId - 1)

\* an updater that throws leaves the state as it was and crashes the app
Outcome(op, id, throws, next) ==
  /\ ~crashed
  /\ IF throws
     THEN crashed' = TRUE /\ UNCHANGED <<tasks, rootTaskIds>>
     ELSE crashed' = FALSE /\ Commit(next)
  /\ Record(op, id)

\* handleGenerateSubtasks: onAddTask(taskId, title) for a suggested title
OnAddTask ==
  \E parentId \in MintedIds, title \in generateSubtasksTitles :
    /\ suggested < MaxSuggested
    /\ suggested' = suggested + 1
    /\ IF parentId \in DOMAIN tasks /\ ~addTaskThrows(state, parentId)
       THEN /\ nextId <= MaxIds
            /\ nextId' = nextId + 1
            /\ now' = now + 1
       ELSE UNCHANGED <<nextId, now>>
    /\ Outcome("addTask", parentId, addTaskThrows(state, parentId),
               addTask(state, parentId, title, nextId, now))
    /\ UNCHANGED edits

OnToggleTask ==
  \E taskId \in MintedIds :
    /\ Outcome("toggleTask", taskId, toggleTaskThrows(state, taskId),
               toggleTask(state, taskId))
    /\ UNCHANGED <<nextId, now, edits, suggested>>

OnDeleteTask ==
  \E taskId \in MintedIds :
    /\ Outcome("deleteTask", taskId, deleteTaskThrows(state, taskId),
               deleteTask(state, taskId))
    /\ UNCHANGED <<nextId, now, edits, suggested>>

OnExecuteDeleteTask ==
  \E taskId \in MintedIds :
    /\ Outcome("executeDeleteTask", taskId,
               executeDeleteTaskThrows(state, taskId),
               executeDeleteTask(state, taskId))
    /\ UNCHANGED <<nextId, now, edits, suggested>>

OnUpdateTask ==
  \E id \in MintedIds, updates \in onUpdateTaskUpdates :
    /\ edits < MaxEdits
    /\ edits' = edits + 1
    /\ Outcome("updateTask", id, FALSE, updateTask(state, id, updates))
    /\ UNCHANGED <<nextId, now, suggested>>

\* a first run: loadState finds nothing saved
InitEngine ==
  /\ Init
  /\ tasks = DefaultState(1, 0).tasks

NextEngine ==
  /\ \/ AddRootTask
     \/ AddTask
     \/ OnAddTask
     \/ OnToggleTask
     \/ OnDeleteTask
     \/ OnExecuteDeleteTask
     \/ OnUpdateTask
  /\ nextId' <= MaxEngineIds + 1
  /\ UNCHANGED shell

SpecEngine == InitEngine /\ [][NextEngine]_vars

\* ------------------------------------------------ the suggestion requests
\* a project with one task, saved by an earlier session: 1{2}
SavedProject == addTask(DefaultState(1, 0), 1, <<"b">>, 2, 1)

InitSuggest ==
  /\ tasks = SavedProject.tasks
  /\ rootTaskIds = SavedProject.rootTaskIds
  /\ nextId = 3
  /\ now = 2
  /\ edits = 0
  /\ suggested = 0
  /\ crashed = FALSE
  /\ last = [op |-> "loadState", id |-> NoId, tasks |-> tasks,
             rootTaskIds |-> rootTaskIds, twice |-> FALSE, before |-> tasks]
  /\ ShellAtRest

\* the tasks a column shows as items: the ones below a root
Items == {k \in Shown : tasks[k].parentId # NoId}

\* handleGenerateSubtasks up to its await: the request goes out
OnGenerateSubtasks ==
  \E taskId \in Items :
    /\ taskId \notin requests
    /\ requests' = requests \cup {taskId}
    /\ Record("generateSubtasks", taskId)
    /\ UNCHANGED <<tasks, rootTaskIds, nextId, now, edits, suggested, crashed,
                   storage, pendingSave, pendingDeleteId, navStack, column>>

\* what ran before the response for taskId arrived: generateSubtasks when
\* nothing ran since a request went out, else the operation, a deleteTask
\* that removed taskId being told apart
Since(taskId) ==
  IF last.op = "deleteTask" /\ taskId \in DOMAIN last.tasks
                            /\ taskId \notin DOMAIN tasks
  THEN IF last.id = taskId THEN "deleteTask of it"
       ELSE "deleteTask of an ancestor"
  ELSE last.op

\* the service did not deliver an array: the request failed, the text is
\* empty or no JSON, or the JSON is no array
SuggestionFailed(response) ==
  \/ response.kind = "rejected"
  \/ ~Truthy(response.text)
  \/ JSONParseThrows(response.text)
  \/ ~JSONParse(response.text).isArray

\* handleGenerateSubtasks after its await: the response has arrived
Settle ==
  \E taskId \in requests, response \in Responses :
    LET titles == generateSubtasks(response)
        created == IF taskId \in DOMAIN tasks THEN Len(titles) ELSE 0
    IN /\ Commit(forEachOnAddTask(state, taskId, titles, nextId, now))
       /\ nextId' = nextId + created
       /\ now' = now + created
       /\ requests' = requests \ {taskId}
       /\ last' = [op |-> "suggestions", id |-> taskId, tasks |-> tasks,
                   rootTaskIds |-> rootTaskIds, twice |-> FALSE,
                   before |-> tasks, failed |-> SuggestionFailed(response),
                   titles |-> titles, after |-> Since(taskId)]
       /\ UNCHANGED <<edits, suggested, crashed, storage, pendingSave,
                      pendingDeleteId, navStack, column>>

NextSuggest ==
  /\ \/ /\ \/ AddTask
           \/ ToggleTask
           \/ DeleteTask
        /\ UNCHANGED shell
     \/ OnGenerateSubtasks
     \/ Settle
  /\ nextId' <= MaxSuggestIds + 1

SpecSuggest == InitSuggest /\ [][NextSuggest]_vars

\* ------------------------------------------- a column's generating flags
\* the calls of taskId at their await
CallsOf(taskId) == IF taskId \in DOMAIN calls THEN calls[taskId] ELSE 0

\* calls with n calls of taskId
WithCalls(taskId, n) ==
  [k \in IF n = 0 THEN DOMAIN calls \ {taskId} ELSE DOMAIN calls \cup {taskId}
     |-> IF k = taskId THEN n ELSE calls[k]]

\* handleGenerateSubtasks up to its await, run from a click on the generate
\* button: the handler is the one the last render made, so generatingIds is
\* the set of that render; the flag is set and the request goes out
HandleGenerateSubtasks ==
  \E taskId \in Items :
    /\ taskId \notin handlerGeneratingIds
    /\ CallsOf(taskId) < MaxCalls
    /\ generatingIds' = generatingIds \cup {taskId}
    /\ calls' = WithCalls(taskId, CallsOf(taskId) + 1)
    /\ Record("generateSubtasks", taskId)
    /\ UNCHANGED <<tasks, rootTaskIds, nextId, now, edits, suggested, crashed,
                   storage, pendingSave, pendingDeleteId, navStack, requests,
                   handlerGeneratingIds>>

\* the column renders again after a setGeneratingIds: its handlers and the
\* disabled={isGenerating} of its buttons take the new set
Render ==
  /\ handlerGeneratingIds # generatingIds
  /\ handlerGeneratingIds' = generatingIds
  /\ UNCHANGED <<tasks, rootTaskIds, nextId, now, edits, suggested, crashed,
                 last, storage, pendingSave, pendingDeleteId, navStack,
                 requests, generatingIds, calls>>

\* handleGenerateSubtasks after its await: the suggestions are added, or the
\* error is logged, and finally the flag is cleared
HandleGenerateSubtasksSettle ==
  \E taskId \in DOMAIN calls, response \in Responses :
    LET titles == generateSubtasks(response)
        created == IF taskId \in DOMAIN tasks THEN Len(titles) ELSE 0
    IN /\ Commit(forEachOnAddTask(state, taskId, titles, nextId, now))
       /\ nextId' = nextId + created
       /\ now' = now + created
       /\ generatingIds' = generatingIds \ {taskId}
       /\ calls' = WithCalls(taskId, CallsOf(taskId) - 1)
       /\ last' = [op |-> "suggestions", id |-> taskId, tasks |-> tasks,
                   rootTaskIds |-> rootTaskIds, twice |-> FALSE,
                   before |-> tasks, failed |-> SuggestionFailed(response),
                   titles |-> titles, after |-> last.op]
       /\ UNCHANGED <<edits, suggested, crashed, storage, pendingSave,
                      pendingDeleteId, navStack, requests,
                      handlerGeneratingIds>>

NextGenerate ==
  /\ \/ /\ DeleteTask
        /\ UNCHANGED shell
     \/ HandleGenerateSubtasks
     \/ Render
     \/ HandleGenerateSubtasksSettle
  /\ nextId' <= MaxGenerateIds + 1

SpecGenerate == InitSuggest /\ [][NextGenerate]_vars

\* ------------------------------------------------------------ the forms
\* handleAddTaskSubmit: whether it calls onAddTask, the title it passes, and
\* newTaskTitle after it
handleAddTaskSubmit(newTaskTitle) ==
  IF Trim(newTaskTitle) = <<>>
  THEN [submits |-> FALSE, newTaskTitle |-> newTaskTitle]
  ELSE [submits |-> TRUE, title |-> Trim(newTaskTitle), newTaskTitle |-> <<>>]

\* task.description || ''
DescriptionOrEmpty(task) ==
  IF "description" \in DOMAIN task THEN task.description ELSE <<>>

\* faulty variant: the edit box is saved as it was typed
handleSaveAsTyped(task, editTitle, editDescription, withDescription) ==
  [submits |-> TRUE,
   updates |-> IF withDescription
               THEN [title |-> editTitle, description |-> editDescription]
               ELSE [title |-> editTitle],
   isEditing |-> FALSE, editTitle |-> editTitle,
   editDescription |-> editDescription]

\* TaskItem.handleSave: whether it calls onUpdate, the updates that reach
\* onUpdateTask, and the edit state after it. The item of part_000 edits
\* title and description (withDescription), the one of
\* components/TaskItem.tsx the title only, which handleTaskTitleUpdate wraps
\* into { title }
handleSave(task, editTitle, editDescription, withDescription) ==
  IF Trim(editTitle) # <<>>
  THEN [submits |-> TRUE,
        updates |-> IF withDescription
                    THEN [title |-> Trim(editTitle),
                          description |-> Trim(editDescription)]
                    ELSE [title |-> Trim(editTitle)],
        isEditing |-> FALSE, editTitle |-> editTitle,
        editDescription |-> editDescription]
  ELSE [submits |-> FALSE, isEditing |-> FALSE, editTitle |-> task.title,
        editDescription |-> IF withDescription THEN DescriptionOrEmpty(task)
                            ELSE editDescription]

\* saveHeaderEdit, of part_001 (withDescription) and of part_002
saveHeaderEdit(headerEditTitle, headerEditDesc, withDescription) ==
  IF Trim(headerEditTitle) # <<>>
  THEN [submits |-> TRUE,
        updates |-> IF withDescription
                    THEN [title |-> Trim(headerEditTitle),
                          description |-> Trim(headerEditDesc)]
                    ELSE [title |-> Trim(headerEditTitle)],
        isEditingHeader |-> FALSE]
  ELSE [submits |-> FALSE, isEditingHeader |-> FALSE]

\* what a form did: the handler, the task, the text typed and the outcome
RecordForm(op, id, typed, form) ==
  last' = [op |-> op, id |-> id, tasks |-> tasks, rootTaskIds |-> rootTaskIds,
           twice |-> FALSE, before |-> tasks, typed |-> typed, form |-> form]

\* the add-task form of the view of parentId is submitted
SubmitAddTask ==
  \E parentId \in Shown, newTaskTitle \in RawTexts :
    LET form == handleAddTaskSubmit(newTaskTitle) IN
    /\ IF form.submits
       THEN /\ Commit(addTask(state, parentId, form.title, nextId, now))
            /\ nextId' = nextId + 1
            /\ now' = now + 1
       ELSE UNCHANGED <<tasks, rootTaskIds, nextId, now>>
    /\ RecordForm("handleAddTaskSubmit", parentId, newTaskTitle, form)
    /\ UNCHANGED <<edits, suggested, crashed>>

\* the edit box of an item is left by Enter or by a blur
SaveItem ==
  \E id \in Items, editTitle \in RawTexts, editDescription \in RawTexts,
     withDescription \in BOOLEAN :
    LET form == handleSave(tasks[id], editTitle, editDescription,
                           withDescription) IN
    /\ IF form.submits
       THEN /\ edits < MaxEdits
            /\ Commit(updateTask(state, id, form.updates))
            /\ edits' = edits + 1
       ELSE UNCHANGED <<tasks, rootTaskIds, edits>>
    /\ RecordForm("handleSave", id, editTitle, form)
    /\ UNCHANGED <<nextId, now, suggested, crashed>>

\* the header edit of the view of id is left by Enter or by a blur
SaveHeader ==
  \E id \in Shown, headerEditTitle \in RawTexts, headerEditDesc \in RawTexts,
     withDescription \in BOOLEAN :
    LET form == saveHeaderEdit(headerEditTitle, headerEditDesc,
                               withDescription) IN
    /\ IF form.submits
       THEN /\ edits < MaxEdits
            /\ Commit(updateTask(state, id, form.updates))
            /\ edits' = edits + 1
       ELSE UNCHANGED <<tasks, rootTaskIds, edits>>
    /\ RecordForm("saveHeaderEdit", id, headerEditTitle, form)
    /\ UNCHANGED <<nextId, now, suggested, crashed>>

NextForms ==
  /\ \/ SubmitAddTask
     \/ SaveItem
     \/ SaveHeader
     \/ ToggleTask
     \/ DeleteTask
  /\ UNCHANGED shell
  /\ nextId' <= MaxFormIds + 1

SpecForms == InitSuggest /\ [][NextForms]_vars

\* ------------------------------------ the confirm-delete app and its columns
\* App's state and taskToDelete, as the modal handlers see them
app == [state |-> state, taskToDelete |-> pendingDeleteId]

\* initiateDelete
initiateDelete(a, taskId) == [a EXCEPT !.taskToDelete = taskId]

\* faulty variant: the id stays pending after the delete
confirmDeleteKeepsPending(a) ==
  IF a.taskToDelete # NoId
  THEN [a EXCEPT !.state = executeDeleteTask(a.state, a.taskToDelete)]
  ELSE a

\* confirmDelete
confirmDelete(a) ==
  IF a.taskToDelete # NoId
  THEN [state |-> executeDeleteTask(a.state, a.taskToDelete),
        taskToDelete |-> NoId]
  ELSE a

\* cancelDelete
cancelDelete(a) == [a EXCEPT !.taskToDelete = NoId]

\* faulty variant: pointer clicks reach the board under the modal
boardCoveredNever(isOpen) == FALSE

\* the modal, when open, lies over the whole board (fixed inset-0 z-50), so
\* no pointer click reaches a column; the buttons of the board keep the
\* keyboard focus they had or get, only the item's own onClick (a div) has
\* no keyboard way
boardCovered(isOpen) == isOpen

\* isOpen={!!taskToDelete}
isOpen == pendingDeleteId # NoId

\* state.rootTaskIds.map(rootId => <TaskColumn key={rootId} .../>): the
\* columns of the roots listed in roots, a new column starting at its root
Columns(stacks, roots) ==
  [c \in SeqSet(roots) |-> IF c \in DOMAIN stacks THEN stacks[c] ELSE <<c>>]

\* currentViewId of column c
currentViewId(c) == navStack[c][Len(navStack[c])]

\* the columns that render: `if (!currentTask) return null`
Rendered == {c \in DOMAIN navStack : IsTask(tasks, currentViewId(c))}

\* the ids column c shows as items: currentTask.children that are there
Listed(c) == {k \in SeqSet(tasks[currentViewId(c)].children) : k \in DOMAIN tasks}

AllListed == UNION {Listed(c) : c \in Rendered}
AllViewed == {currentViewId(c) : c \in Rendered}

InitConfirm ==
  /\ tasks = SavedProject.tasks
  /\ rootTaskIds = SavedProject.rootTaskIds
  /\ nextId = 3
  /\ now = 2
  /\ edits = 0
  /\ suggested = 0
  /\ crashed = FALSE
  /\ last = [op |-> "loadState", id |-> NoId, tasks |-> tasks,
             rootTaskIds |-> rootTaskIds, twice |-> FALSE, before |-> tasks]
  /\ storage = NoItem
  /\ pendingSave = FALSE
  /\ pendingDeleteId = NoId
  /\ navStack = Columns(<<>>, rootTaskIds)
  /\ requests = {}
  /\ ColumnAtRest

\* handleNavigate, from a pointer click on an item
HandleNavigate ==
  \E c \in Rendered :
    \E taskId \in Listed(c) :
      /\ ~boardCovered(isOpen)
      /\ navStack' = [navStack EXCEPT ![c] = Append(@, taskId)]
      /\ Record("navigate", taskId)
      /\ UNCHANGED <<tasks, rootTaskIds, nextId, now, edits, suggested,
                     crashed, storage, pendingSave, pendingDeleteId,
                   requests, column>>

\* handleBack, from the Back button of a view below the root
HandleBack ==
  \E c \in Rendered :
    /\ Len(navStack[c]) > 1
    /\ navStack' = [navStack EXCEPT ![c] = SubSeq(@, 1, Len(@) - 1)]
    /\ Record("back", c)
    /\ UNCHANGED <<tasks, rootTaskIds, nextId, now, edits, suggested,
                   crashed, storage, pendingSave, pendingDeleteId,
                   requests, column>>

\* the New Project button; the new root gets its column
BoardAddRoot ==
  /\ AddRootTask
  /\ navStack' = Columns(navStack, rootTaskIds')
  /\ UNCHANGED <<storage, pendingSave, pendingDeleteId, requests, column>>

\* handleAddTaskSubmit: onAddTask(currentViewId, ...)
BoardAddTask ==
  /\ AddTask
  /\ last'.id \in AllViewed
  /\ UNCHANGED shell

\* the checkbox of an item
BoardToggle ==
  /\ ToggleTask
  /\ last'.id \in AllListed
  /\ UNCHANGED shell

\* the edit box of an item, or of the header
BoardUpdate ==
  /\ UpdateTask
  /\ last'.id \in AllListed \cup AllViewed
  /\ UNCHANGED shell

\* the delete button of an item (onDeleteTask), or of the header in the root
\* view (onDeleteRoot): both are initiateDelete
InitiateDelete ==
  \E taskId \in AllListed \cup {c \in Rendered : Len(navStack[c]) = 1} :
    /\ pendingDeleteId' = initiateDelete(app, taskId).taskToDelete
    /\ Commit(initiateDelete(app, taskId).state)
    /\ Record("initiateDelete", taskId)
    /\ UNCHANGED <<nextId, now, edits, suggested, crashed, storage,
                   pendingSave, navStack, requests, column>>

\* the Delete button of the modal; a column whose root is gone unmounts
ConfirmDelete ==
  /\ isOpen
  /\ pendingDeleteId' = confirmDelete(app).taskToDelete
  /\ Commit(confirmDelete(app).state)
  /\ navStack' = Columns(navStack, confirmDelete(app).state.rootTaskIds)
  /\ Record("confirmDelete", pendingDeleteId)
  /\ UNCHANGED <<nextId, now, edits, suggested, crashed, storage,
                 pendingSave, requests, column>>

\* the Cancel and X buttons of the modal
CancelDelete ==
  /\ isOpen
  /\ pendingDeleteId' = cancelDelete(app).taskToDelete
  /\ Commit(cancelDelete(app).state)
  /\ Record("cancelDelete", pendingDeleteId)
  /\ UNCHANGED <<nextId, now, edits, suggested, crashed, storage,
                 pendingSave, navStack, requests, column>>

NextConfirm ==
  /\ \/ HandleNavigate
     \/ HandleBack
     \/ BoardAddRoot
     \/ BoardAddTask
     \/ BoardToggle
     \/ BoardUpdate
     \/ InitiateDelete
     \/ ConfirmDelete
     \/ CancelDelete
  /\ nextId' <= MaxConfirmIds + 1

SpecConfirm == InitConfirm /\ [][NextConfirm]_vars

\* ------------------------------------------------- the app and its storage
\* states an earlier session or another program may have left in the item
\* a root saved complete
SavedRoot == toggleTask(DefaultState(1, 0), 1)
\* {"tasks":{},"rootTaskIds":["1"]}: a root id without its task
DanglingRoot == [tasks |-> <<>>, rootTaskIds |-> <<1>>]
\* a task without parent that rootTaskIds does not list
OrphanTask == [tasks |-> DefaultState(1, 0).tasks, rootTaskIds |-> <<>>]

StoredItems ==
  {NoItem, EmptyString, Garbage, JSONStringify(SavedRoot),
   JSONStringify(DanglingRoot), JSONStringify(OrphanTask)}

\* useState<AppState>(loadState) on mount; the persistence effect is due
InitStore ==
  \E saved \in StoredItems :
    /\ storage = saved
    /\ tasks = loadState(saved, 1, 0).tasks
    /\ rootTaskIds = loadState(saved, 1, 0).rootTaskIds
    /\ nextId = 2
    /\ now = 1
    /\ edits = 0
    /\ suggested = 0
    /\ crashed = FALSE
    /\ last = [op |-> "loadState", id |-> NoId, tasks |-> tasks,
               rootTaskIds |-> rootTaskIds, twice |-> FALSE, before |-> tasks]
    /\ pendingSave = TRUE
    /\ pendingDeleteId = NoId
    /\ navStack = <<>>
    /\ requests = {}
    /\ ColumnAtRest

\* useEffect(() => localStorage.setItem(..., JSON.stringify(state)), [state])
PersistenceEffect ==
  /\ pendingSave
  /\ storage' = JSONStringify(state)
  /\ pendingSave' = FALSE
  /\ UNCHANGED <<tasks, rootTaskIds, nextId, now, edits, suggested, crashed,
                 last, pendingDeleteId, navStack, requests, column>>

\* the page is closed and opened again: App mounts anew and loadState reads
\* the item as it is
Reload ==
  /\ Commit(loadState(storage, nextId, now))
  /\ IF loadStateSeeds(storage)
     THEN nextId' = nextId + 1 /\ now' = now + 1
     ELSE UNCHANGED <<nextId, now>>
  /\ Record("loadState", NoId)
  /\ pendingSave' = TRUE
  /\ UNCHANGED <<edits, suggested, crashed, storage, pendingDeleteId,
                 navStack, requests, column>>

\* a setState with a new state object schedules the effect
Mutation ==
  /\ \/ AddRootTask
     \/ AddTask
     \/ ToggleTask
     \/ DeleteTask
     \/ UpdateTask
  /\ pendingSave' = TRUE
  /\ UNCHANGED <<storage, pendingDeleteId, navStack, requests, column>>

NextStore ==
  /\ \/ Mutation
     \/ PersistenceEffect
     \/ Reload
  /\ nextId' <= MaxEngineIds + 1

SpecStore == InitStore /\ [][NextStore]_vars

\* React runs a scheduled effect
SpecStoreFair == SpecStore /\ WF_vars(PersistenceEffect)

\* ------------------------------------------------------- forest vocabulary
\* the strict ancestors of id, following parentId
RECURSIVE StrictAncestors(_, _)
StrictAncestors(ts, id) ==
  IF id \notin DOMAIN ts \/ ts[id].parentId = NoId THEN {}
  ELSE {ts[id].parentId} \cup StrictAncestors(ts, ts[id].parentId)

\* the strict descendants of id: the tasks that have id among their ancestors
Descendants(ts, id) == {k \in DOMAIN ts : id \in StrictAncestors(ts, k)}

ChildSet(ts, id) == SeqSet(ts[id].children)

AllChildrenComplete(ts, id) == \A c \in ChildSet(ts, id) : ts[c].completed

\* section 3, invariant 4, of one forest
CompletionInvariantOf(ts) ==
  \A k \in DOMAIN ts :
    ts[k].children # <<>> => (ts[k].completed <=> AllChildrenComplete(ts, k))

Ops == {"addRootTask", "addTask", "toggleTask", "deleteTask", "updateTask"}

\* --------------------------------------------------------------- the claims

\* C1: after every operation of any sequence of create, toggleCompletion,
\* editFields, delete and add-root on existing ids, every task with a
\* non-empty children list is complete iff every one of its children is.
C1_CompletionInvariant == CompletionInvariantOf(tasks)

\* an operation has left a complete parent and an incomplete parent that
\* has a complete child
C1_Witness ==
  /\ last.op \in Ops
  /\ \E k \in DOMAIN tasks : tasks[k].children # <<>> /\ tasks[k].completed
  /\ \E k \in DOMAIN tasks :
       /\ ~tasks[k].completed
       /\ \E c \in ChildSet(tasks, k) : tasks[c].completed

\* C2: after toggleCompletion(t) of a task with value c, t and every
\* descendant of t, at any depth, has completed = not c.
C2_DownwardForce ==
  last.op = "toggleTask" =>
    \A k \in {last.id} \cup Descendants(last.tasks, last.id) :
      tasks[k].completed = ~last.tasks[last.id].completed

\* a toggle of a task whose grandchildren had mixed values
C2_Witness ==
  /\ last.op = "toggleTask"
  /\ \E g, h \in Descendants(last.tasks, last.id) :
       /\ last.tasks[g].parentId # last.id
       /\ last.tasks[g].completed
       /\ ~last.tasks[h].completed

\* C3: after toggleCompletion(t) every strict ancestor of t is complete
\* exactly when all its children are; when t became incomplete every ancestor
\* is incomplete; when t became complete its parent is complete only if all
\* of t's siblings were complete already.
C3_UpwardPropagation ==
  last.op = "toggleTask" =>
    LET t == last.id
        newCompleted == ~last.tasks[t].completed
        anc == StrictAncestors(tasks, t)
        p == tasks[t].parentId
    IN /\ \A a \in anc : tasks[a].completed <=> AllChildrenComplete(tasks, a)
       /\ ~newCompleted => \A a \in anc : ~tasks[a].completed
       /\ (newCompleted /\ p # NoId /\ tasks[p].completed) =>
            \A sib \in ChildSet(last.tasks, p) \ {t} : last.tasks[sib].completed

\* a toggle to complete that completes the parent, which has another child,
\* and leaves the grandparent incomplete
C3_Witness ==
  /\ last.op = "toggleTask"
  /\ tasks[last.id].completed
  /\ LET p == tasks[last.id].parentId IN
       /\ p # NoId
       /\ Len(tasks[p].children) > 1
       /\ tasks[p].completed /\ ~last.tasks[p].completed
       /\ tasks[p].parentId # NoId
       /\ ~tasks[tasks[p].parentId].completed

prevState == [tasks |-> last.tasks, rootTaskIds |-> last.rootTaskIds]

\* every descendant of id has the completed value of id
Uniform(ts, id) ==
  \A k \in Descendants(ts, id) : ts[k].completed = ts[id].completed

\* C4 as stated: toggleCompletion(id) applied twice in a row returns the
\* state before the first toggle, for a leaf or an internal task, whatever
\* the mix of completed values among its descendants.
C4_RoundTripAsStated ==
  last.twice => tasks = last.before

\* C4, amended: toggleCompletion(id) applied twice in a row returns the state
\* before the first toggle when every descendant of id had the completed
\* value of id before the first toggle (so for every leaf).
C4_RoundTripUniform ==
  (last.twice /\ Uniform(last.before, last.id)) =>
    /\ tasks = last.before
    /\ rootTaskIds = last.rootTaskIds

\* two toggles in a row of a task with descendants and with a parent that
\* has another child
C4_Witness ==
  /\ last.twice
  /\ Uniform(last.before, last.id)
  /\ Descendants(last.before, last.id) # {}
  /\ LET p == tasks[last.id].parentId IN
       p # NoId /\ Len(tasks[p].children) > 1

\* the one key addTask added
NewKeys == DOMAIN tasks \ DOMAIN last.tasks

\* C5: create(parentId, title) on an existing parent adds exactly one task,
\* an incomplete leaf with parentId = parentId, whose id is appended as the
\* last element of the parent's children, the earlier elements keeping
\* their order.
C5_CreateAppendsLeaf ==
  last.op = "addTask" =>
    /\ DOMAIN last.tasks \subseteq DOMAIN tasks
    /\ Cardinality(NewKeys) = 1
    /\ \A n \in NewKeys :
         /\ tasks[n].id = n
         /\ ~tasks[n].completed
         /\ tasks[n].children = <<>>
         /\ tasks[n].parentId = last.id
         /\ tasks[last.id].children = Append(last.tasks[last.id].children, n)

\* a create under a parent that already had two children
C5_Witness ==
  /\ last.op = "addTask"
  /\ Len(last.tasks[last.id].children) >= 2

\* C6: after create(p, title), p is incomplete, every ancestor of p that was
\* complete before is incomplete, and no task was set to complete.
C6_CreateUncompletes ==
  last.op = "addTask" =>
    /\ ~tasks[last.id].completed
    /\ \A a \in StrictAncestors(last.tasks, last.id) :
         last.tasks[a].completed => ~tasks[a].completed
    /\ \A k \in DOMAIN tasks :
         tasks[k].completed => (k \in DOMAIN last.tasks /\ last.tasks[k].completed)

\* a create under a complete task whose parent and grandparent were complete
C6_Witness ==
  /\ last.op = "addTask"
  /\ last.tasks[last.id].completed
  /\ \E a \in StrictAncestors(last.tasks, last.id) :
       /\ a # last.tasks[last.id].parentId
       /\ last.tasks[a].completed

\* C7: after delete(id), tasks holds neither id nor a former descendant of
\* id, the former parent's children do not contain id, and every task
\* outside the subtree of id is still a key.
C7_DeleteSubtree ==
  last.op = "deleteTask" =>
    LET gone == {last.id} \cup Descendants(last.tasks, last.id)
        p == last.tasks[last.id].parentId
    IN /\ DOMAIN tasks = DOMAIN last.tasks \ gone
       /\ p # NoId => last.id \notin ChildSet(tasks, p)

\* a delete of a task that has a parent and a grandchild
C7_Witness ==
  /\ last.op = "deleteTask"
  /\ last.tasks[last.id].parentId # NoId
  /\ \E g \in Descendants(last.tasks, last.id) :
       last.tasks[g].parentId # last.id

\* p and the ancestors of p up to a, in the forest ts
PathUp(ts, p, a) ==
  {b \in {p} \cup StrictAncestors(ts, p) :
     b = a \/ a \in StrictAncestors(ts, b)}

\* C8: when delete(id) leaves the former parent with a non-empty list of
\* children that are all complete, the parent is complete afterwards, and so
\* is each further ancestor for as long as all children of that ancestor are
\* complete; from the first ancestor with an incomplete child on, nothing
\* is promoted.
C8_DeletePromotes ==
  (last.op = "deleteTask" /\ last.tasks[last.id].parentId # NoId) =>
    LET p == last.tasks[last.id].parentId IN
    (tasks[p].children # <<>> /\ AllChildrenComplete(tasks, p)) =>
      \A a \in {p} \cup StrictAncestors(tasks, p) :
        IF \A b \in PathUp(tasks, p, a) : AllChildrenComplete(tasks, b)
        THEN tasks[a].completed
        ELSE tasks[a].completed = last.tasks[a].completed

\* a delete that promotes the parent and stops at the grandparent, which has
\* an incomplete child
C8_Witness ==
  /\ last.op = "deleteTask"
  /\ last.tasks[last.id].parentId # NoId
  /\ LET p == last.tasks[last.id].parentId IN
       /\ tasks[p].completed /\ ~last.tasks[p].completed
       /\ tasks[p].parentId # NoId
       /\ ~tasks[tasks[p].parentId].completed

\* a delete that promotes the parent and the grandparent
C8_WitnessChain ==
  /\ last.op = "deleteTask"
  /\ last.tasks[last.id].parentId # NoId
  /\ LET p == last.tasks[last.id].parentId IN
       /\ tasks[p].completed /\ ~last.tasks[p].completed
       /\ tasks[p].parentId # NoId
       /\ tasks[tasks[p].parentId].completed

\* C9: no task that survives delete(id) goes from complete to incomplete.
C9_DeleteNeverDemotes ==
  last.op = "deleteTask" =>
    \A k \in DOMAIN tasks : last.tasks[k].completed => tasks[k].completed

\* a delete of the only child of a complete task, which stays complete
C9_Witness ==
  /\ last.op = "deleteTask"
  /\ last.tasks[last.id].parentId # NoId
  /\ LET p == last.tasks[last.id].parentId IN
       /\ last.tasks[p].completed
       /\ tasks[p].children = <<>>
       /\ tasks[p].completed

EditedFields == {"title", "description"}

\* C10: editFields(id, {title?, description?}) on an existing id changes at
\* most the title and the description of task id; its other fields, every
\* other task and rootIds are unchanged.
C10_EditIsPureFieldUpdate ==
  last.op = "updateTask" =>
    /\ DOMAIN tasks = DOMAIN last.tasks
    /\ rootTaskIds = last.rootTaskIds
    /\ \A k \in DOMAIN tasks \ {last.id} : tasks[k] = last.tasks[k]
    /\ DOMAIN tasks[last.id] = DOMAIN last.tasks[last.id]
    /\ \A f \in DOMAIN tasks[last.id] \ EditedFields :
         tasks[last.id][f] = last.tasks[last.id][f]

\* an edit that changed the title and the description of a complete task
\* that has children
C10_Witness ==
  /\ last.op = "updateTask"
  /\ tasks[last.id].title # last.tasks[last.id].title
  /\ tasks[last.id].description # last.tasks[last.id].description
  /\ tasks[last.id].completed
  /\ tasks[last.id].children # <<>>

\* C11: after every operation of a sequence of valid operations, every id in
\* a children list and every non-null parentId is a key of tasks.
C11_ReferentialIntegrity ==
  \A k \in DOMAIN tasks :
    /\ ChildSet(tasks, k) \subseteq DOMAIN tasks
    /\ tasks[k].parentId # NoId => tasks[k].parentId \in DOMAIN tasks

\* a delete of a task with a parent and children has left a task that has
\* children
C11_Witness ==
  /\ last.op = "deleteTask"
  /\ last.tasks[last.id].parentId # NoId
  /\ last.tasks[last.id].children # <<>>
  /\ \E k \in DOMAIN tasks : tasks[k].children # <<>>

\* the number of places of arr that hold id
Occurrences(arr, id) == Cardinality({i \in 1..Len(arr) : arr[i] = id})

\* C12: after every operation of a sequence of valid operations,
\* c.parentId = p iff c occurs in p.children; an id occurs at most once in a
\* children list and in at most one task's children list.
C12_BackReferences ==
  /\ \A c, p \in DOMAIN tasks :
       (tasks[c].parentId = p) <=> (c \in ChildSet(tasks, p))
  /\ \A p \in DOMAIN tasks : \A c \in ChildSet(tasks, p) :
       Occurrences(tasks[p].children, c) = 1
  /\ \A p, q \in DOMAIN tasks :
       p # q => ChildSet(tasks, p) \cap ChildSet(tasks, q) = {}

\* a create or a delete has left two parents, one of them with two children
C12_Witness ==
  /\ last.op \in {"addTask", "deleteTask"}
  /\ \E p, q \in DOMAIN tasks :
       /\ p # q
       /\ Len(tasks[p].children) >= 2
       /\ tasks[q].children # <<>>

\* the ids of the tasks without a parent
RootKeys(ts) == {k \in DOMAIN ts : ts[k].parentId = NoId}

\* C13: after every operation of a sequence of valid operations, rootIds
\* holds exactly the ids of the tasks whose parentId is none, each once;
\* deleting a root removes it from rootIds and from tasks, deleting a
\* non-root leaves rootIds unchanged.
C13_RootSet ==
  /\ SeqSet(rootTaskIds) = RootKeys(tasks)
  /\ \A r \in SeqSet(rootTaskIds) : Occurrences(rootTaskIds, r) = 1
  /\ last.op = "deleteTask" =>
       IF last.tasks[last.id].parentId = NoId
       THEN last.id \notin SeqSet(rootTaskIds) /\ last.id \notin DOMAIN tasks
       ELSE rootTaskIds = last.rootTaskIds

\* a delete of a root that has children, another root staying
C13_Witness ==
  /\ last.op = "deleteTask"
  /\ last.tasks[last.id].parentId = NoId
  /\ last.tasks[last.id].children # <<>>
  /\ rootTaskIds # <<>>

\* a delete of a non-root while there are two roots
C13_WitnessNonRoot ==
  /\ last.op = "deleteTask"
  /\ last.tasks[last.id].parentId # NoId
  /\ Len(rootTaskIds) >= 2

MutatingOps == {"addTask", "toggleTask", "updateTask", "deleteTask"}

\* the tasks an operation on id may touch: id, its descendants, its ancestors
Neighbourhood(ts, id) ==
  {id} \cup Descendants(ts, id) \cup StrictAncestors(ts, id)

\* C19: create, toggleCompletion, editFields and delete leave unchanged, in
\* all fields, every task that is neither the target, a descendant of the
\* target nor an ancestor of the target.
C19_Locality ==
  last.op \in MutatingOps =>
    \A k \in DOMAIN last.tasks \ Neighbourhood(last.tasks, last.id) :
      k \in DOMAIN tasks /\ tasks[k] = last.tasks[k]

\* an operation that changed an ancestor's value while a sibling subtree
\* and another root were there to be left alone
C19_Witness ==
  /\ last.op \in MutatingOps
  /\ \E a \in StrictAncestors(last.tasks, last.id) :
       a \in DOMAIN tasks /\ tasks[a].completed # last.tasks[a].completed
  /\ \E k \in DOMAIN last.tasks \ Neighbourhood(last.tasks, last.id) :
       last.tasks[k].parentId # NoId
  /\ Len(rootTaskIds) >= 2

\* arr without its one occurrence of id, the rest in order
IsWithout(new, old, id) ==
  \E i \in 1..Len(old) :
    /\ old[i] = id
    /\ new = SubSeq(old, 1, i - 1) \o SubSeq(old, i + 1, Len(old))

\* the lists of the state: the children of the tasks that are there before
\* and after the operation, and rootIds (under the key NoId)
ListKeys == (DOMAIN tasks \cap DOMAIN last.tasks) \cup {NoId}
ListNow(k) == IF k = NoId THEN rootTaskIds ELSE tasks[k].children
ListBefore(k) == IF k = NoId THEN last.rootTaskIds ELSE last.tasks[k].children

\* C20: create only appends at the end of one children list (add-root at the
\* end of rootIds), toggleCompletion and editFields leave every list as it
\* is, and delete(id) removes exactly one entry, id, from exactly one list;
\* so two ids that stay in a list keep their relative order.
C20_ChildOrder ==
  /\ last.op \in {"toggleTask", "updateTask", "loadState"} =>
       \A k \in ListKeys : ListNow(k) = ListBefore(k)
  /\ last.op \in {"addTask", "addRootTask"} =>
       LET target == IF last.op = "addTask" THEN last.id ELSE NoId IN
       /\ \E n \in NewKeys : ListNow(target) = Append(ListBefore(target), n)
       /\ \A k \in ListKeys \ {target} : ListNow(k) = ListBefore(k)
  /\ last.op = "deleteTask" =>
       LET owner == last.tasks[last.id].parentId IN
       /\ IsWithout(ListNow(owner), ListBefore(owner), last.id)
       /\ \A k \in ListKeys \ {owner} : ListNow(k) = ListBefore(k)

\* a delete of the middle one of three children
C20_Witness ==
  /\ last.op = "deleteTask"
  /\ last.tasks[last.id].parentId # NoId
  /\ LET old == last.tasks[last.tasks[last.id].parentId].children IN
       Len(old) >= 3 /\ old[2] = last.id

\* a delete of the first of two roots
C20_WitnessRoot ==
  /\ last.op = "deleteTask"
  /\ Len(last.rootTaskIds) >= 2
  /\ last.rootTaskIds[1] = last.id

\* ------------------------------------- claims about the operation surface

HasTitle(ts, k) == "title" \in DOMAIN ts[k]

\* C14: create with a title that trims to empty adds no task, whichever
\* caller issues it (the add-task form or a suggested title), so that no
\* create leaves a task whose title is empty after trimming.
C14_CreateRejectsEmptyTitle ==
  last.op = "addTask" =>
    \A n \in NewKeys : HasTitle(tasks, n) /\ Trim(tasks[n].title) # <<>>

\* C15: editFields(id, {title}) with a title that trims to empty leaves the
\* stored title of the existing task id as it was.
C15_EditRejectsEmptyTitle ==
  (/\ last.op = "updateTask"
   /\ IsTask(last.tasks, last.id)
   /\ Trim(tasks[last.id].title) = <<>>)
  => tasks[last.id].title = last.tasks[last.id].title

\* C16: editFields on an id that is no key of tasks leaves the TreeState
\* unchanged and adds no key.
C16_EditMissingIdFailsCleanly ==
  (last.op = "updateTask" /\ last.id \notin DOMAIN last.tasks) =>
    /\ tasks = last.tasks
    /\ rootTaskIds = last.rootTaskIds

\* C17: delete on an id that is no key of tasks is a non-fatal outcome that
\* leaves tasks and rootIds unchanged.
C17_DeleteMissingIdFailsCleanly ==
  (/\ last.op \in {"deleteTask", "executeDeleteTask"}
   /\ last.id \notin DOMAIN last.tasks)
  => /\ ~crashed
     /\ tasks = last.tasks
     /\ rootTaskIds = last.rootTaskIds

\* C18: create with a parentId that is no key of tasks and toggleCompletion
\* with an id that is no key of tasks leave the TreeState as it was: no task
\* is added and no completed value changes.
C18_MissingIdNoOp ==
  (/\ last.op \in {"addTask", "toggleTask"}
   /\ last.id \notin DOMAIN last.tasks)
  => /\ ~crashed
     /\ tasks = last.tasks
     /\ rootTaskIds = last.rootTaskIds

\* a create under a deleted parent while a complete task is still there
C18_Witness ==
  /\ last.op = "addTask"
  /\ last.id \notin DOMAIN last.tasks
  /\ \E k \in DOMAIN tasks : IsTask(tasks, k) /\ tasks[k].completed

\* a toggle of a deleted task while an incomplete task is still there
C18_WitnessToggle ==
  /\ last.op = "toggleTask"
  /\ last.id \notin DOMAIN last.tasks
  /\ \E k \in DOMAIN tasks : IsTask(tasks, k) /\ ~tasks[k].completed

\* ------------------------------------ the upward passes and the specification
\* DownwardForce(id, value) of section 4.1
RECURSIVE DownwardForce(_, _, _)
DownwardForce(ts, id, value) ==
  LET forced == [ts EXCEPT ![id].completed = value]
      F[i \in 0..Len(ts[id].children)] ==
        IF i = 0 THEN forced ELSE DownwardForce(F[i - 1], ts[id].children[i], value)
  IN F[Len(ts[id].children)]

\* UpwardRecompute(startId) of section 4.1: the AND-reduction of the children
\* at each visited node, stopping at the first node whose value stays
RECURSIVE UpwardRecompute(_, _)
UpwardRecompute(ts, p) ==
  IF p = NoId THEN ts
  ELSE LET all == \A c \in SeqSet(ts[p].children) : ts[c].completed IN
       IF all = ts[p].completed THEN ts
       ELSE UpwardRecompute([ts EXCEPT ![p].completed = all], ts[p].parentId)

\* toggleCompletion of section 4.1
SpecToggleCompletion(ts, taskId) ==
  UpwardRecompute(DownwardForce(ts, taskId, ~ts[taskId].completed),
                  ts[taskId].parentId)

\* create of section 4.1, for the leaf the code has built
SpecCreate(ts, parentId, leaf) ==
  UpwardRecompute(
    [k \in DOMAIN ts \cup {leaf.id} |->
       IF k = leaf.id THEN leaf
       ELSE IF k = parentId
            THEN [ts[k] EXCEPT !.children = Append(ts[k].children, leaf.id)]
            ELSE ts[k]],
    parentId)

SameCompleted(ts1, ts2) ==
  /\ DOMAIN ts1 = DOMAIN ts2
  /\ \A k \in DOMAIN ts1 : ts1[k].completed = ts2[k].completed

\* C25: on every forest the engine reaches, the completed values left by
\* addTask and by toggleTask are, for every task, the values DownwardForce
\* followed by UpwardRecompute from the parent produce.
C25_UpwardPassesRefine ==
  /\ last.op = "toggleTask" =>
       SameCompleted(tasks, SpecToggleCompletion(last.tasks, last.id))
  /\ last.op = "addTask" =>
       \A n \in NewKeys :
         SameCompleted(tasks, SpecCreate(last.tasks, last.id, tasks[n]))

\* a create under a complete task whose parent was complete too
C25_Witness ==
  /\ last.op = "addTask"
  /\ last.tasks[last.id].completed
  /\ last.tasks[last.id].parentId # NoId
  /\ last.tasks[last.tasks[last.id].parentId].completed

\* a toggle to complete that completes the parent and stops at an incomplete
\* grandparent
C25_WitnessToggle ==
  /\ last.op = "toggleTask"
  /\ tasks[last.id].completed
  /\ LET p == tasks[last.id].parentId IN
       /\ p # NoId
       /\ tasks[p].completed
       /\ tasks[p].parentId # NoId
       /\ ~tasks[tasks[p].parentId].completed

\* the walk up of the last toggleTask
LastWalk ==
  LET newCompleted == ~last.tasks[last.id].completed IN
  toggleUpVisited(updateDescendants(last.tasks, last.id, newCompleted),
                  last.tasks[last.id].parentId, newCompleted)

\* C26: the walk up of toggleTask assigns only ancestors whose completed
\* value changes, stops at the first ancestor whose value stays (in the
\* branch for true and in the branch for false), and leaves every ancestor
\* above that one unvisited and as it was.
C26_EarlyExit ==
  last.op = "toggleTask" =>
    LET v == LastWalk
        visited == {v[i].id : i \in 1..Len(v)}
    IN /\ \A i \in 1..Len(v) :
            /\ v[i].written <=>
                 tasks[v[i].id].completed # last.tasks[v[i].id].completed
            /\ ~v[i].written => i = Len(v)
       /\ \A a \in StrictAncestors(last.tasks, last.id) \ visited :
            tasks[a] = last.tasks[a]

\* a toggle to complete whose walk stops at the parent, below a grandparent
C26_Witness ==
  /\ last.op = "toggleTask"
  /\ tasks[last.id].completed
  /\ Len(LastWalk) = 1
  /\ ~LastWalk[1].written
  /\ Cardinality(StrictAncestors(last.tasks, last.id)) >= 2

\* a toggle to incomplete whose walk stops at the parent, below a grandparent
C26_WitnessFalse ==
  /\ last.op = "toggleTask"
  /\ ~tasks[last.id].completed
  /\ Len(LastWalk) = 1
  /\ ~LastWalk[1].written
  /\ Cardinality(StrictAncestors(last.tasks, last.id)) >= 2

\* C27: when deleteTask removes the only child of a task p, p is left without
\* children, p.completed keeps the value it had, and no ancestor of p changes
\* its completed value.
C27_LastChildKeepsValue ==
  (/\ last.op = "deleteTask"
   /\ last.tasks[last.id].parentId # NoId
   /\ last.tasks[last.tasks[last.id].parentId].children = <<last.id>>)
  => LET p == last.tasks[last.id].parentId IN
     /\ tasks[p].children = <<>>
     /\ tasks[p].completed = last.tasks[p].completed
     /\ \A a \in StrictAncestors(last.tasks, p) :
          tasks[a].completed = last.tasks[a].completed

\* the only child of a complete task that has a parent is deleted
C27_Witness ==
  /\ last.op = "deleteTask"
  /\ last.tasks[last.id].parentId # NoId
  /\ LET p == last.tasks[last.id].parentId IN
       /\ last.tasks[p].children = <<last.id>>
       /\ last.tasks[p].completed
       /\ last.tasks[p].parentId # NoId

\* the only child of an incomplete task is deleted
C27_WitnessIncomplete ==
  /\ last.op = "deleteTask"
  /\ last.tasks[last.id].parentId # NoId
  /\ LET p == last.tasks[last.id].parentId IN
       /\ last.tasks[p].children = <<last.id>>
       /\ ~last.tasks[p].completed

\* ----------------------------------------------- claims about persistence
\* the invariants of section 3 for a state st
WellFormed(st) ==
  LET ts == st.tasks IN
  /\ \A k \in DOMAIN ts :
       /\ ts[k].id = k
       /\ ts[k].parentId \in DOMAIN ts \cup {NoId}
       /\ ts[k].parentId # k
       /\ \A c \in SeqSet(ts[k].children) : c \in DOMAIN ts /\ ts[c].parentId = k
       /\ ts[k].parentId # NoId => Occurrences(ts[ts[k].parentId].children, k) = 1
  /\ CompletionInvariantOf(ts)
  /\ \A k \in DOMAIN ts :
       Occurrences(st.rootTaskIds, k) = (IF ts[k].parentId = NoId THEN 1 ELSE 0)
  /\ SeqSet(st.rootTaskIds) \subseteq DOMAIN ts

\* the item holds no well-formed TreeState: absent, empty, no JSON, or JSON
\* of something else
AbsentOrMalformed(saved) ==
  ~(Truthy(saved) /\ ~JSONParseThrows(saved) /\ WellFormed(JSONParse(saved)))

\* C21: when the item read at startup is absent or malformed (not parsable,
\* or parsable but no well-formed TreeState), the initial state is exactly
\* one default root: title "My First Project", empty description, incomplete,
\* no children, no parent, and rootTaskIds holding only its id.
C21_StartupSeeding ==
  (last.op = "loadState" /\ pendingSave /\ AbsentOrMalformed(storage)) =>
    \E id \in 1..nextId, t \in 0..now : state = DefaultState(id, t)

\* C22: the persistence effect runs after every mutation (a scheduled effect
\* does run), once it has run the item parses to the state in memory, and a
\* reload without a scheduled effect returns the state the last mutation
\* produced.
C22_SaveAfterMutation ==
  /\ [](~pendingSave =>
          /\ ~JSONParseThrows(storage)
          /\ JSONParse(storage) = state)
  /\ [][(last'.op = "loadState" /\ ~pendingSave) =>
          (tasks' = tasks /\ rootTaskIds' = rootTaskIds)]_vars
  /\ pendingSave ~> ~pendingSave

\* a reload, after the effect has run, of a state a mutation has produced
C22_Witness ==
  /\ last.op = "loadState"
  /\ ~pendingSave
  /\ \E k \in DOMAIN tasks : tasks[k].children # <<>> /\ tasks[k].completed

\* ------------------------------------------------ claims about suggestions
\* C23: when the suggestion call fails (request error, empty response,
\* unparsable or non-array response) it yields the empty sequence, no create
\* is issued, the TreeState stays as it was and nothing is thrown.
C23_FailureIsZeroSuggestions ==
  (last.op = "suggestions" /\ last.failed) =>
    /\ last.titles = <<>>
    /\ tasks = last.tasks
    /\ rootTaskIds = last.rootTaskIds
    /\ ~crashed

\* a failed request for a task that is still there, a create having run
\* since the request went out
C23_Witness ==
  /\ last.op = "suggestions"
  /\ last.failed
  /\ last.id \in DOMAIN tasks
  /\ last.after = "addTask"

C28_LateSuggestionsDropped ==
  (last.op = "suggestions" /\ last.id \notin DOMAIN last.tasks) =>
    /\ tasks = last.tasks
    /\ rootTaskIds = last.rootTaskIds
    /\ \A k \in DOMAIN tasks : tasks[k].parentId # last.id
    /\ WellFormed(state)
    /\ ~crashed

\* titles arrive for a task that was deleted after the request went out,
\* other tasks being there
C28_Witness ==
  /\ last.op = "suggestions"
  /\ last.id \notin DOMAIN last.tasks
  /\ last.titles # <<>>
  /\ last.after = "deleteTask of it"
  /\ DOMAIN tasks # {}

\* titles arrive for a task that went with the delete of an ancestor
C28_WitnessAncestor ==
  /\ last.op = "suggestions"
  /\ last.id \notin DOMAIN last.tasks
  /\ last.titles # <<>>
  /\ last.after = "deleteTask of an ancestor"

\* ------------------------------------- claims about the modal and the columns
\* C29: in the confirm-delete app a task leaves the TreeState only by
\* confirmDelete, which removes the pending id (the one the latest
\* initiateDelete set) with its subtree; initiateDelete and cancelDelete leave
\* the TreeState as it was; after confirmDelete or cancelDelete no id is
\* pending.
C29_ConfirmedDeletionOnly ==
  /\ (DOMAIN last.tasks \ DOMAIN tasks # {}) => last.op = "confirmDelete"
  /\ last.op = "confirmDelete" =>
       /\ pendingDeleteId = NoId
       /\ DOMAIN last.tasks \ DOMAIN tasks
            = ({last.id} \cup Descendants(last.tasks, last.id))
              \cap DOMAIN last.tasks
  /\ last.op = "initiateDelete" =>
       /\ state = prevState
       /\ pendingDeleteId = last.id
  /\ last.op = "cancelDelete" =>
       /\ state = prevState
       /\ pendingDeleteId = NoId

\* a confirmed delete of a task with a child, a root being left
C29_Witness ==
  /\ last.op = "confirmDelete"
  /\ Descendants(last.tasks, last.id) # {}
  /\ DOMAIN tasks # {}

\* a cancelled delete
C29_WitnessCancel ==
  /\ last.op = "cancelDelete"
  /\ last.id \in DOMAIN tasks

\* C30: the navigation stack of every column whose root is still there is
\* non-empty and starts with the column's root id, every entry is a key of
\* tasks, and each entry after the first is a child of the entry before it;
\* so the viewed task is never a deleted one.
C30_NavStackValid ==
  \A c \in DOMAIN navStack :
    c \in DOMAIN tasks =>
      LET st == navStack[c] IN
      /\ Len(st) >= 1
      /\ st[1] = c
      /\ \A i \in 1..Len(st) : st[i] \in DOMAIN tasks
      /\ \A i \in 2..Len(st) :
           /\ tasks[st[i]].parentId = st[i - 1]
           /\ st[i] \in SeqSet(tasks[st[i - 1]].children)

\* a delete is confirmed in a view below the root
C30_Witness ==
  /\ last.op = "confirmDelete"
  /\ \E c \in DOMAIN navStack :
       /\ Len(navStack[c]) >= 2
       /\ last.id \in SeqSet(last.tasks[navStack[c][Len(navStack[c])]].children)

\* back has returned a column to its root view
C30_WitnessBack ==
  /\ last.op = "back"
  /\ Len(navStack[last.id]) = 1

\* ------------------------------------------ claims about the generating flags
\* C31: for a task id of a column no second suggestion request is started
\* while one is in flight, also when two generate actions are fired before
\* the column has rendered the generating flag, and the flag of the task is
\* cleared once the request has settled, with suggestions, with none or
\* failed.
C31_OneRequestPerTask ==
  /\ \A taskId \in DOMAIN calls : calls[taskId] <= 1
  /\ last.op = "suggestions" => last.id \notin generatingIds

\* the part of C31 about the flag: it is cleared when a request settles
C31_FlagCleared ==
  last.op = "suggestions" => last.id \notin generatingIds

\* a request has settled without suggestions
C31_WitnessCleared ==
  /\ last.op = "suggestions"
  /\ last.failed

\* ------------------------------------------------- claims about the forms
FormOps == {"handleAddTaskSubmit", "handleSave", "saveHeaderEdit"}

\* a text without a space at either end
Trimmed(text) == text = <<>> \/ (Head(text) # Space /\ text[Len(text)] # Space)

\* the title the engine has stored by the form of last
StoredTitle ==
  IF last.op = "handleAddTaskSubmit"
  THEN tasks[CHOOSE k \in DOMAIN tasks \ DOMAIN last.tasks : TRUE].title
  ELSE tasks[last.id].title

\* C33: through the add-task form, the item edit box and the header edit a
\* title that trims to empty never reaches create or editFields: the
\* TreeState is as it was, editing mode has ended and the item edit box is
\* back at the stored title. A title that does reach the engine through
\* these forms is trimmed.
C33_FormsNeverSubmitEmpty ==
  last.op \in FormOps =>
    IF Trim(last.typed) = <<>>
    THEN /\ state = prevState
         /\ last.op = "handleSave" =>
              /\ ~last.form.isEditing
              /\ last.form.editTitle = last.tasks[last.id].title
         /\ last.op = "saveHeaderEdit" => ~last.form.isEditingHeader
    ELSE /\ StoredTitle = Trim(last.typed)
         /\ Trimmed(StoredTitle)
         /\ StoredTitle # <<>>

\* the item edit box was left with spaces only
C33_Witness ==
  /\ last.op = "handleSave"
  /\ last.typed = <<Space>>
  /\ last.tasks[last.id].title # <<Space>>

\* a title typed with spaces around it was added
C33_WitnessTrimmed ==
  /\ last.op = "handleAddTaskSubmit"
  /\ last.typed = <<Space, "a", Space>>
  /\ StoredTitle = <<"a">>

\* the header edit was left empty
C33_WitnessHeader ==
  /\ last.op = "saveHeaderEdit"
  /\ last.typed = <<>>

\* --------------------------------------------- claims about the loops' visits
\* seq holds every element of S, each once
ExactlyOnce(seq, S) == Len(seq) = Cardinality(S) /\ SeqSet(seq) = S

\* the ancestors of id from its parent up to its root
RECURSIVE AncestorPath(_, _)
AncestorPath(ts, id) ==
  IF ts[id].parentId = NoId THEN <<>>
  ELSE <<ts[id].parentId>> \o AncestorPath(ts, ts[id].parentId)

\* walk goes up from the first of path, ancestor by ancestor, and ends at or
\* before the last of path
WalksUp(walk, path) ==
  /\ Len(walk) <= Len(path)
  /\ \A i \in 1..Len(walk) : walk[i] = path[i]

\* C32: on every reachable forest create, toggleCompletion, editFields and
\* delete terminate: the downward pass and the subtree collection visit the
\* target and each of its descendants exactly once, and each upward walk
\* visits each ancestor at most once and ends at or before the root.
C32_Termination ==
  \A id \in DOMAIN tasks :
    LET subtree == {id} \cup Descendants(tasks, id) IN
    /\ ExactlyOnce(updateDescendantsVisited(tasks, id), subtree)
    /\ ExactlyOnce(collectVisited(tasks, id), subtree)
    /\ WalksUp(toggleTaskWalk(tasks, id), AncestorPath(tasks, id))
    /\ WalksUp(deleteTaskWalk(tasks, id), AncestorPath(tasks, id))
    /\ WalksUp(addTaskWalk(tasks, id), AncestorPath(tasks, id))

\* after a toggleTask there is a task with descendants on two levels, a
\* toggleTask whose walk reaches the grandparent, and a deleteTask and an
\* addTask whose walk reads an ancestor
C32_Witness ==
  /\ last.op = "toggleTask"
  /\ \E id \in DOMAIN tasks :
       /\ Len(updateDescendantsVisited(tasks, id)) >= 4
       /\ \E k \in Descendants(tasks, id) : tasks[k].parentId # id
  /\ \E id \in DOMAIN tasks : Len(toggleTaskWalk(tasks, id)) >= 2
  /\ \E id \in DOMAIN tasks : Len(deleteTaskWalk(tasks, id)) >= 1
  /\ \E id \in DOMAIN tasks : Len(addTaskWalk(tasks, id)) >= 1

\* ------------------------------------------------- claims about adding a root
\* C34: the add-root action adds exactly one new task, an incomplete leaf
\* with parentId none, appends its id as the last element of rootIds, and
\* leaves every existing task and the order of the existing root ids as they
\* were.
C34_AddRoot ==
  last.op = "addRootTask" =>
    /\ last.id \notin DOMAIN last.tasks
    /\ DOMAIN tasks = DOMAIN last.tasks \cup {last.id}
    /\ tasks[last.id].id = last.id
    /\ ~tasks[last.id].completed
    /\ tasks[last.id].children = <<>>
    /\ tasks[last.id].parentId = NoId
    /\ rootTaskIds = Append(last.rootTaskIds, last.id)
    /\ \A k \in DOMAIN last.tasks : tasks[k] = last.tasks[k]

\* a root is added next to two roots, one of them with a child
C34_Witness ==
  /\ last.op = "addRootTask"
  /\ Len(last.rootTaskIds) >= 2
  /\ \E k \in DOMAIN last.tasks : last.tasks[k].children # <<>>

====
